---- MODULE Spec2Model ----
(***************************************************************************)
(* Model of src/typescript.jsx: the AgriAIPrototype React component, its   *)
(* mocked prediction service fakePredictAPI and its rule engine            *)
(* generateRecommendations.                                                *)
(*                                                                         *)
(* Numbers are fixed point.  The scale of each quantity:                   *)
(*   areaHa, ph, organicMatterPct, base        tenths      (3.2  -> 32)    *)
(*   moistureFactor, phFactor, weatherFactor,                              *)
(*   yieldTons, confidence                     hundredths  (0.98 -> 98)    *)
(*   moisturePct, tempC                        units                       *)
(* A JavaScript number that may be NaN is a record [nan, v].               *)
(***************************************************************************)
EXTENDS Integers, Sequences, FiniteSets, TLC

VARIABLES
    user,             \* useState(null): Null, {id} or {id, name}
    loading,          \* useState(false)
    farm,             \* useState({name:'', crop:'wheat', areaHa:1})
    prediction,       \* useState(null)
    weather,          \* useState(null)
    soil,             \* useState(null)
    recommendations,  \* useState([])
    inflight,         \* fetchAllData calls suspended at the await of line 64, oldest first
    overlapped,       \* history: since the component was last idle, two calls were suspended at once
    fnInput,          \* the features a direct call of the two pure functions is given
    fnEstimate,       \* that call's locals and result of fakePredictAPI, or Null
    fnRecs            \* that call's result of generateRecommendations, or Null

compVars == <<user, loading, farm, prediction, weather, soil, recommendations, inflight,
              overlapped>>
fnVars == <<fnInput, fnEstimate, fnRecs>>
vars == <<user, loading, farm, prediction, weather, soil, recommendations, inflight,
          overlapped, fnInput, fnEstimate, fnRecs>>

\* JavaScript null, for every variable that can hold it.
Null == [null |-> TRUE]

\* A JavaScript number: v is meaningful when nan is FALSE.
Num(x) == [nan |-> FALSE, v |-> x]
NaN == [nan |-> TRUE, v |-> 0]

Abs(x) == IF x < 0 THEN -x ELSE x
Min(a, b) == IF a < b THEN a ELSE b
Max(a, b) == IF a > b THEN a ELSE b

\* How many calls may be suspended at once in the model.
MaxInFlight == 3

(***************************************************************************)
(* fakePredictAPI, lines 79-89.                                            *)
(***************************************************************************)

\* The property names every object literal inherits from Object.prototype;
\* their values are functions (or, for __proto__, an object): all truthy.
ObjectPrototypeKeys ==
    {"constructor", "toString", "toLocaleString", "valueOf", "hasOwnProperty",
     "isPrototypeOf", "propertyIsEnumerable", "__proto__"}

\* baseByCrop[crop]: a property read of the literal {wheat: 3.2, rice: 4.0, maize: 5.0}.
baseByCrop(crop) ==
    CASE crop = "wheat" -> [type |-> "number", v |-> 32]
      [] crop = "rice" -> [type |-> "number", v |-> 40]
      [] crop = "maize" -> [type |-> "number", v |-> 50]
      [] crop \in ObjectPrototypeKeys -> [type |-> "object", v |-> 0]
      [] OTHER -> [type |-> "undefined", v |-> 0]

\* JavaScript truthiness of a value read from baseByCrop.
Truthy(val) ==
    \/ val.type = "object"
    \/ val.type = "number" /\ val.v # 0

\* const base = baseByCrop[features.crop] || 2.5
base(crop) ==
    IF Truthy(baseByCrop(crop)) THEN baseByCrop(crop) ELSE [type |-> "number", v |-> 25]

MoistureFactorNoFloor(moisturePct) == Min(120, 50 + 2 * moisturePct)

\* Math.max(0.8, Math.min(1.2, 0.5 + moisturePct/50)), in hundredths.
moistureFactor(moisturePct) == Max(80, Min(120, 50 + 2 * moisturePct))

\* 1 - Math.abs(6.5 - ph)/10, in hundredths; ph in tenths.
phFactor(ph) == 100 - Abs(65 - ph)

WeatherFactorUncapped(tempC) == 100 - 2 * Abs(tempC - 25)

\* 1 - Math.min(0.3, Math.abs(tempC - 25)/50), in hundredths.
weatherFactor(tempC) == 100 - Min(30, 2 * Abs(tempC - 25))

\* base (tenths) x three factors (hundredths) x areaHa (tenths): 10^8 to the unit,
\* so 10^6 to the hundredth.
ProductScale == 1000000

ToFixed2Truncating(p) ==
    IF p >= 0 THEN p \div ProductScale ELSE -((-p) \div ProductScale)

\* +(x).toFixed(2): the nearest hundredth, a tie going away from zero; p is x
\* scaled by 10^8 and the result is in hundredths.
toFixed2(p) ==
    IF p >= 0 THEN (p + ProductScale \div 2) \div ProductScale
    ELSE -((-p + ProductScale \div 2) \div ProductScale)

\* const predictedYieldTons = +(base * moistureFactor * phFactor * weatherFactor
\*                              * features.areaHa).toFixed(2)
\* A base that is not a number (a function of Object.prototype) multiplies to NaN.
predictedYieldTons(features) ==
    LET b == base(features.crop)
    IN  IF b.type # "number" \/ features.areaHa.nan
        THEN NaN
        ELSE Num(toFixed2(b.v * moistureFactor(features.soil.moisturePct)
                              * phFactor(features.soil.ph)
                              * weatherFactor(features.weather.tempC)
                              * features.areaHa.v))

\* return {yieldTons: predictedYieldTons, confidence: 0.82}
fakePredictAPI(features) ==
    [yieldTons |-> predictedYieldTons(features), confidence |-> 82]

(***************************************************************************)
(* generateRecommendations, lines 91-101.                                  *)
(***************************************************************************)

IrrigationInclusive(s) ==
    IF s.moisturePct <= 20
    THEN [type |-> "irrigation", msg |-> "Apply 20mm irrigation in next 3 days"]
    ELSE [type |-> "irrigation", msg |-> "Soil moisture sufficient for 5 days"]

\* Lines 94-95: the one irrigation entry.
irrigationRec(s) ==
    IF s.moisturePct < 20
    THEN [type |-> "irrigation", msg |-> "Apply 20mm irrigation in next 3 days"]
    ELSE [type |-> "irrigation", msg |-> "Soil moisture sufficient for 5 days"]

FertilizerInclusive(s) ==
    IF s.organicMatterPct <= 20
    THEN <<[type |-> "fertilizer", msg |-> "Apply 30kg/ha organic compost"]>>
    ELSE <<>>

\* Line 97: the fertilizer entry, pushed when organicMatterPct < 2 (tenths: 20).
fertilizerRecs(s) ==
    IF s.organicMatterPct < 20
    THEN <<[type |-> "fertilizer", msg |-> "Apply 30kg/ha organic compost"]>>
    ELSE <<>>

\* Line 99: the pest entry, always pushed.
pestRec == [type |-> "pest", msg |-> "Monitor for aphids - set up yellow sticky traps"]

\* crop and weather are parameters the body never reads.
generateRecommendations(crop, s, w) ==
    <<irrigationRec(s)>> \o fertilizerRecs(s) \o <<pestRec>>

(***************************************************************************)
(* Direct calls of the two pure functions: SpecFn.                         *)
(***************************************************************************)

CropStrings == {"wheat", "rice", "maize", "cotton", "", "constructor"}
AreaValues == {Num(-10), Num(1), Num(10), Num(20), NaN}
PhValues == {-40, 0, 65, 70, 140, 170}
OrganicMatterValues == {0, 18, 20, 21}
MoistureValues == {0, 15, 19, 20, 24, 35, 100}
TempValues == {-30, 10, 11, 25, 26, 29, 40, 41}

\* The exact product lies halfway between two hundredths.  There the rounding
\* error of the double product, which fixed point does not carry, decides which
\* way toFixed(2) goes.
ExactTie(features) ==
    LET b == base(features.crop)
        p == b.v * moistureFactor(features.soil.moisturePct)
                 * phFactor(features.soil.ph)
                 * weatherFactor(features.weather.tempC)
                 * features.areaHa.v
    IN  b.type = "number" /\ ~features.areaHa.nan
        /\ Abs(p) % ProductScale = ProductScale \div 2

\* The inputs of a direct call, those with an exact tie left out.
FeatureInputs ==
    {f \in [crop : CropStrings,
            areaHa : AreaValues,
            soil : [ph : PhValues, organicMatterPct : OrganicMatterValues,
                    moisturePct : MoistureValues],
            weather : [tempC : TempValues]] : ~ExactTie(f)}

\* Lines 56 and 60: the mocked weather and soil of fetchAllData.
mockWeather == [tempC |-> 29]
mockSoil == [ph |-> 65, organicMatterPct |-> 18, moisturePct |-> 24]

\* Line 18: useState({name: '', crop: 'wheat', areaHa: 1}).
InitialFarm == [name |-> "", crop |-> "wheat", areaHa |-> Num(10)]

\* Line 64: the argument of fakePredictAPI, read from the farm of the render
\* whose fetchAllData runs.
featuresOf(f) ==
    [crop |-> f.crop, areaHa |-> f.areaHa, soil |-> mockSoil, weather |-> mockWeather]

\* Lines 15-22: the state of the component after construction.
CompInit ==
    /\ user = Null
    /\ loading = FALSE
    /\ farm = InitialFarm
    /\ prediction = Null
    /\ weather = Null
    /\ soil = Null
    /\ recommendations = <<>>
    /\ inflight = <<>>
    /\ overlapped = FALSE

InitFn ==
    /\ CompInit
    /\ fnInput \in FeatureInputs
    /\ fnEstimate = Null
    /\ fnRecs = Null

\* One call of fakePredictAPI (lines 82-88), its locals kept beside its result.
Estimate ==
    /\ fnEstimate = Null
    /\ fnEstimate' = [base |-> base(fnInput.crop),
                      moistureFactor |-> moistureFactor(fnInput.soil.moisturePct),
                      phFactor |-> phFactor(fnInput.soil.ph),
                      weatherFactor |-> weatherFactor(fnInput.weather.tempC),
                      result |-> fakePredictAPI(fnInput)]
    /\ UNCHANGED <<fnInput, fnRecs>>
    /\ UNCHANGED compVars

\* One call of generateRecommendations (lines 91-101).
Recommend ==
    /\ fnRecs = Null
    /\ fnRecs' = generateRecommendations(fnInput.crop, fnInput.soil, fnInput.weather)
    /\ UNCHANGED <<fnInput, fnEstimate>>
    /\ UNCHANGED compVars

NextFn == Estimate \/ Recommend

SpecFn == InitFn /\ [][NextFn]_vars

(***************************************************************************)
(* The component: Spec.  An action is one event handler together with the  *)
(* render it causes and the effect of lines 43-47 that render runs.  The   *)
(* language state (line 16) takes no part in any of this and is left out.  *)
(***************************************************************************)

\* What the user may type or pick.
UserIds == {"", "a"}
FarmNames == {"", "F"}
CropOptions == {"wheat", "rice", "maize", "cotton"}   \* lines 152-155
AreaTexts == {"1", "2", ""}

\* parseFloat of the text of the area input (line 158), on AreaTexts.
parseFloat(txt) ==
    CASE txt = "1" -> Num(10)
      [] txt = "2" -> Num(20)
      [] txt = "" -> NaN

\* Line 232: !user || !user.name ? <Login/> : <Dashboard/>
LoggedIn(u) == u # Null /\ "name" \in DOMAIN u /\ u.name # ""
ShowsLogin == ~LoggedIn(user)
ShowsDashboard == LoggedIn(user)

\* Line 44: if(user), on the user of the render: any object is truthy.
EffectFetches(u) == u # Null

LastTimerFirst(q) == Len(q)

\* Line 81: every call waits on its own setTimeout(r, 600); timers of equal
\* delay fire in the order they were set, so the oldest call resumes first.
firingTimer(q) == 1

\* Lines 50-64: fetchAllData of the render with farm f, up to its await.
StartFetch(f) ==
    /\ Len(inflight) < MaxInFlight
    /\ loading' = TRUE
    /\ weather' = mockWeather
    /\ soil' = mockSoil
    /\ inflight' = Append(inflight, featuresOf(f))
    /\ overlapped' = (inflight # <<>>)
    /\ UNCHANGED <<prediction, recommendations>>

NoFetch ==
    UNCHANGED <<loading, weather, soil, inflight, overlapped, prediction, recommendations>>

\* Line 109: onChange of the username input, setUser({id: value}); the new
\* user object re-runs the effect.
TypeUsername(v) ==
    /\ ShowsLogin
    /\ v # (IF user # Null THEN user.id ELSE "")
    /\ user' = [id |-> v]
    /\ IF EffectFetches(user') THEN StartFetch(farm) ELSE NoFetch
    /\ UNCHANGED farm
    /\ UNCHANGED fnVars

\* Line 117: onClick of Enter, if(user && user.id) setUser({...user, name}).
PressEnter ==
    /\ ShowsLogin
    /\ user # Null /\ user.id # ""
    /\ user' = [id |-> user.id, name |-> "Farmer " \o user.id]
    /\ IF EffectFetches(user') THEN StartFetch(farm) ELSE NoFetch
    /\ UNCHANGED farm
    /\ UNCHANGED fnVars

\* Line 140: onClick of Logout, setUser(null).
Logout ==
    /\ ShowsDashboard
    /\ user' = Null
    /\ IF EffectFetches(user') THEN StartFetch(farm) ELSE NoFetch
    /\ UNCHANGED farm
    /\ UNCHANGED fnVars

\* Lines 149, 151, 158: an edit of the farm form, setFarm({...farm, field}); the
\* new farm object re-runs the effect, whose fetchAllData reads the new farm.
SetFarm(f) ==
    /\ ShowsDashboard
    /\ farm' = f
    /\ IF EffectFetches(user) THEN StartFetch(f) ELSE NoFetch
    /\ UNCHANGED user
    /\ UNCHANGED fnVars

EditFarmName(v) == v # farm.name /\ SetFarm([farm EXCEPT !.name = v])

SelectCrop(c) == c # farm.crop /\ SetFarm([farm EXCEPT !.crop = c])

EditArea(txt) == SetFarm([farm EXCEPT !.areaHa = parseFloat(txt)])

\* Line 159: onClick of Predict, fetchAllData of the displayed render.
ClickPredict ==
    /\ ShowsDashboard
    /\ StartFetch(farm)
    /\ UNCHANGED <<user, farm>>
    /\ UNCHANGED fnVars

\* Lines 64-74: a timer fires and its call runs to its end: the prediction and
\* the recommendations are stored and loading is cleared.
ResumeFetch ==
    /\ inflight # <<>>
    /\ LET i == firingTimer(inflight)
           features == inflight[i]
       IN  /\ prediction' = fakePredictAPI(features)
           /\ recommendations' =
                  generateRecommendations(features.crop, mockSoil, mockWeather)
           /\ inflight' = [k \in 1..(Len(inflight) - 1) |->
                              IF k < i THEN inflight[k] ELSE inflight[k + 1]]
    /\ loading' = FALSE
    /\ UNCHANGED <<user, farm, weather, soil, overlapped>>
    /\ UNCHANGED fnVars

Init ==
    /\ CompInit
    /\ fnInput = featuresOf(InitialFarm)
    /\ fnEstimate = Null
    /\ fnRecs = Null

Next ==
    \/ \E v \in UserIds : TypeUsername(v)
    \/ PressEnter
    \/ Logout
    \/ \E v \in FarmNames : EditFarmName(v)
    \/ \E c \in CropOptions : SelectCrop(c)
    \/ \E txt \in AreaTexts : EditArea(txt)
    \/ ClickPredict
    \/ ResumeFetch

Spec == Init /\ [][Next]_vars

(***************************************************************************)
(* Properties of the pure functions, checked under SpecFn.                 *)
(***************************************************************************)

WheatExample ==
    [crop |-> "wheat", areaHa |-> Num(10),
     soil |-> [ph |-> 65, organicMatterPct |-> 18, moisturePct |-> 24],
     weather |-> [tempC |-> 29]]

EstimatedWheatExample == fnInput = WheatExample /\ fnEstimate # Null

\* C1, as stated: for wheat, area 1, ph 6.5, organic matter 1.8, moisture 24 and
\* temperature 29 the factors are 0.98, 1 and 0.92 and the estimate is
\* yieldTons 2.88 with confidence 0.82.
C1_WheatExampleIs288 ==
    EstimatedWheatExample =>
        /\ fnEstimate.moistureFactor = 98
        /\ fnEstimate.phFactor = 100
        /\ fnEstimate.weatherFactor = 92
        /\ fnEstimate.result.yieldTons = Num(288)
        /\ fnEstimate.result.confidence = 82

\* C1, amended: for the same input the factors are 0.98, 1 and 0.92 and the
\* estimate is yieldTons 2.89 (3.2 x 0.98 x 1 x 0.92 x 1 = 2.88512, rounded to
\* 2 decimal places) with confidence 0.82.
C1_WheatExampleIs289 ==
    EstimatedWheatExample =>
        /\ fnEstimate.base = [type |-> "number", v |-> 32]
        /\ fnEstimate.moistureFactor = 98
        /\ fnEstimate.phFactor = 100
        /\ fnEstimate.weatherFactor = 92
        /\ fnEstimate.result.yieldTons = Num(289)
        /\ fnEstimate.result.confidence = 82

C1_Witness == EstimatedWheatExample /\ fnEstimate.result.yieldTons = Num(289)

RecTypes == [i \in 1..Len(fnRecs) |-> fnRecs[i].type]

\* C2: the list generateRecommendations returns is irrigation, [fertilizer],
\* pest: one irrigation entry first, one pest entry last, and one fertilizer
\* entry between them exactly when organicMatterPct < 2 (2.0 itself gives
\* none); 2 or 3 entries and nothing else.
C2_RecommendationShape ==
    fnRecs # Null =>
        LET n == Len(fnRecs)
        IN  /\ n \in {2, 3}
            /\ RecTypes[1] = "irrigation"
            /\ RecTypes[n] = "pest"
            /\ Cardinality({i \in 1..n : RecTypes[i] = "irrigation"}) = 1
            /\ Cardinality({i \in 1..n : RecTypes[i] = "pest"}) = 1
            /\ Cardinality({i \in 1..n : RecTypes[i] = "fertilizer"})
                   = (IF fnInput.soil.organicMatterPct < 20 THEN 1 ELSE 0)
            /\ n = 3 <=> fnInput.soil.organicMatterPct < 20
            /\ n = 3 => RecTypes[2] = "fertilizer"

C2_Witness ==
    /\ fnRecs # Null
    /\ fnInput.soil.organicMatterPct = 20
    /\ RecTypes = <<"irrigation", "pest">>

Shortage == "Apply 20mm irrigation in next 3 days"
Sufficient == "Soil moisture sufficient for 5 days"
IrrigationMsgs == {fnRecs[i].msg : i \in {k \in 1..Len(fnRecs) : fnRecs[k].type = "irrigation"}}

\* C3: the irrigation advisory is the shortage message (irrigate within 3
\* days) exactly when moisturePct < 20 and the sufficiency message (enough for
\* 5 days) exactly when moisturePct >= 20; 19 gives shortage, 20 sufficiency.
C3_IrrigationBoundary ==
    fnRecs # Null =>
        /\ fnInput.soil.moisturePct < 20 <=> IrrigationMsgs = {Shortage}
        /\ fnInput.soil.moisturePct >= 20 <=> IrrigationMsgs = {Sufficient}
        /\ fnInput.soil.moisturePct = 19 => fnRecs[1].msg = Shortage
        /\ fnInput.soil.moisturePct = 20 => fnRecs[1].msg = Sufficient

C3_Witness ==
    /\ fnRecs # Null
    /\ fnInput.soil.moisturePct = 20
    /\ IrrigationMsgs = {Sufficient}

\* C4, as stated: every estimate for an input with areaHa > 0, whatever the
\* crop, the soil pH, the moisture and the temperature, has yieldTons >= 0 and
\* confidence in [0, 1].
C4_EstimateInRange ==
    (fnEstimate # Null /\ ~fnInput.areaHa.nan /\ fnInput.areaHa.v > 0) =>
        /\ ~fnEstimate.result.yieldTons.nan
        /\ fnEstimate.result.yieldTons.v >= 0
        /\ fnEstimate.result.confidence \in 0..100

\* C5: the moisture factor is 0.5 + moisturePct/50 limited to [0.8, 1.2]: 0.8
\* when moisturePct = 0, 1.2 when moisturePct = 100, never outside [0.8, 1.2].
C5_MoistureFactorClamped ==
    fnEstimate # Null =>
        LET m == fnInput.soil.moisturePct
            f == fnEstimate.moistureFactor
        IN  /\ f \in 80..120
            /\ m = 0 => f = 80
            /\ m = 100 => f = 120
            /\ m <= 15 => f = 80
            /\ m >= 35 => f = 120
            /\ (m >= 15 /\ m <= 35) => f - 50 = 2 * m

C5_Witness ==
    /\ fnEstimate # Null
    /\ fnInput.soil.moisturePct = 100
    /\ fnEstimate.moistureFactor = 120

\* C6: the weather factor is never below 0.7 and never above 1, whatever the
\* temperature; it is 1 only at 25 degrees and 0.7 at every temperature 15
\* degrees or more away from 25.
C6_WeatherFactorFloor ==
    fnEstimate # Null =>
        LET t == fnInput.weather.tempC
            f == fnEstimate.weatherFactor
        IN  /\ f \in 70..100
            /\ f = 100 <=> t = 25
            /\ (t <= 10 \/ t >= 40) => f = 70

C6_Witness ==
    /\ fnEstimate # Null
    /\ fnInput.weather.tempC = -30
    /\ fnEstimate.weatherFactor = 70

\* C7, as stated: wheat uses base yield 3.2, rice 4.0, maize 5.0 and every
\* other crop string whatsoever 2.5.
C7_BaseByCrop ==
    fnEstimate # Null =>
        fnEstimate.base =
            [type |-> "number",
             v |-> CASE fnInput.crop = "wheat" -> 32
                     [] fnInput.crop = "rice" -> 40
                     [] fnInput.crop = "maize" -> 50
                     [] OTHER -> 25]

(***************************************************************************)
(* Properties of the component, checked under Spec.                        *)
(***************************************************************************)

\* C8, as stated: while at least one fetchAllData call has started and not
\* finished, loading is true, also when calls overlap.
C8_LoadingWhileInFlight == inflight # <<>> => loading = TRUE

\* C9: overlapping fetchAllData calls apply their predictions in the order the
\* calls started, and once a call has completed and none is in flight the
\* stored prediction is the estimate for the current farm.crop and farm.areaHa.
C9_PredictionIsCurrent ==
    /\ [](prediction # Null /\ inflight = <<>>
            => prediction = fakePredictAPI(featuresOf(farm)))
    /\ [][Len(inflight') < Len(inflight)
            => /\ inflight' = Tail(inflight)
               /\ prediction' = fakePredictAPI(Head(inflight))]_vars

C9_Witness ==
    /\ overlapped
    /\ inflight = <<>>
    /\ farm.crop = "rice" /\ farm.areaHa = Num(20)
    /\ prediction = fakePredictAPI(featuresOf(farm))
    /\ prediction.yieldTons = Num(721)

\* C10, as stated: a fetchAllData call starts only in a state where user.name
\* is set and the Dashboard is displayed; typing in the username field of the
\* Login form starts none.
C10_FetchOnlyLoggedIn ==
    [][Len(inflight') > Len(inflight) => LoggedIn(user')]_vars

====
